---- MODULE Spec2Model ----
(***************************************************************************)
(* yalc: the Add/Link engine (addPackages) and the Publish engine          *)
(* (publishPackage, publishDepthFirst, publish) of src/src/add.ts, with    *)
(* the package store, the per-project staging folder (.yalc), node_modules,*)
(* the lockfile and the installation registry as state.                    *)
(*                                                                         *)
(* A project directory is identified with the name of the package that     *)
(* lives in it; every project can be published and can consume the others. *)
(***************************************************************************)
EXTENDS Integers, Sequences, FiniteSets, TLC

\* ---------------------------------------------------------------- universe
Names == {"A", "B", "C"}
NameOrder == <<"A", "B", "C">>
Versions == {"1.0.0", "2.0.0"}

\* number of distinct file contents a working tree can have
MaxContent == 2
\* cap on the depth of the publishDepthFirst call stack
MaxDepth == 5
\* number of add commands the user runs in one behaviour
MaxAdds == 2

\* optional boolean options: true, false or not given
Opt3 == {"true", "false", "undefined"}
Truthy(x) == x = "true"

yalcPackagesFolder == ".yalc"

NoSig == <<>>
\* content signature of a packaged file set (package.json carries the version)
Signature(version, content) == <<version, content>>

\* a node_modules/<name> entry is one of "none", "copy", "link_own_yalc" (a
\* symlink into the .yalc folder of the project), "link_other_yalc" (a symlink
\* into another .yalc folder) and "link_project" (a symlink to a project)

NoLock ==
  [present |-> FALSE, version |-> "", replaced |-> "", pure |-> FALSE,
   file |-> FALSE, link |-> FALSE, signature |-> NoSig]

NoStaged == [signature |-> NoSig, version |-> ""]

EmptyMap == [n \in Names |-> ""]
NoField == [present |-> FALSE, map |-> EmptyMap]

VARIABLES
  manifest,       \* manifest[d]: package.json of project d
  content,        \* content[d]: current content of the working tree of d
  store,          \* store[n]: entries of package n, oldest first
  yalcDir,        \* yalcDir[d][n]: staged copy of n in d/.yalc
  nodeModules,    \* nodeModules[d][n]: kind of d/node_modules/n
  binLinks,       \* binLinks[d]: packages with links in d/node_modules/.bin
  lockfile,       \* lockfile[d][n]: yalc.lock entry of n in d
  installations,  \* installations[n]: project dirs registered for n
  pc,             \* position of the running publishPackage invocation
  options,        \* PublishPackageOptions of the running invocation
  root,           \* package being published by the running invocation
  stack,          \* publishDepthFirst call stack, innermost last
  publishedNames, \* the visited set of publishDepthFirst
  pushTodo,       \* installation paths the push loop has still to visit
  toRemove,       \* installationsToRemove collected by the push loop
  log,            \* events of the running invocation, in order
  threw,          \* the running invocation ended with an exception
  startLinks,     \* the qualifying link edges when the invocation started
  addCall,        \* the addPackages call just made: arguments, pre-state, effects
  adds            \* number of add commands the user has run so far

vars ==
  <<manifest, content, store, yalcDir, nodeModules, binLinks, lockfile,
    installations, pc, options, root, stack, publishedNames, pushTodo,
    toRemove, log, threw, startLinks, addCall, adds>>

\* ------------------------------------------------------------ small helpers
RECURSIVE SeqToSet(_)
SeqToSet(s) == IF s = <<>> THEN {} ELSE {Head(s)} \cup SeqToSet(Tail(s))

RECURSIVE FilterSeq(_, _)
FilterSeq(s, S) ==
  IF s = <<>> THEN <<>>
  ELSE IF Head(s) \in S THEN <<Head(s)>> \o FilterSeq(Tail(s), S)
       ELSE FilterSeq(Tail(s), S)

RECURSIVE CountEv(_, _)
CountEv(s, S) ==
  IF s = <<>> THEN 0
  ELSE (IF Head(s) \in S THEN 1 ELSE 0) + CountEv(Tail(s), S)

\* ------------------------------------------------------------ package store
\* "name" or "name@version"
Specifier(name, version) ==
  IF version = "" THEN name ELSE name \o "@" \o version

parsePackageName(packageName) ==
  LET cands == {r \in [name : Names, version : Versions \cup {""}] :
                  Specifier(r.name, r.version) = packageName}
  IN IF cands = {} THEN [name |-> "", version |-> ""]
     ELSE CHOOSE r \in cands : TRUE

\* fs.existsSync(getPackageStoreDir(name))
StoreHasName(st, name) == name \in Names /\ Len(st[name]) > 0

\* fs.existsSync(getPackageStoreDir(name, version))
StoreHasVersion(st, name, version) ==
  /\ name \in Names
  /\ \E i \in 1..Len(st[name]) : st[name][i].version = version

StoreEntry(st, name, version) ==
  st[name][CHOOSE i \in 1..Len(st[name]) : st[name][i].version = version]

\* the entries are kept in creation order: the most recently created is last
getLatestPackageVersion(st, name) ==
  IF Len(st[name]) = 0 THEN "" ELSE st[name][Len(st[name])].version

readSignatureFile(entry) == entry.signature

\* ------------------------------------------------------------- Add/Link engine
AddPackagesOptionsDefault ==
  [dev |-> "undefined", link |-> "undefined", linkDep |-> "undefined",
   pure |-> "undefined"]

\* mutant: a workspaces manifest does not switch pure mode on
doPure_IgnoresWorkspaces(opts, localPkg) ==
  IF opts.pure = "false" THEN FALSE ELSE Truthy(opts.pure)

\* options.pure === false ? false : options.pure || !!localPkg.workspaces
doPure(opts, localPkg) ==
  IF opts.pure = "false" THEN FALSE
  ELSE Truthy(opts.pure) \/ localPkg.workspaces

\* protocol + values.yalcPackagesFolder + '/' + pkg.name
localAddress(opts, pkgName) ==
  (IF Truthy(opts.linkDep) THEN "link:" ELSE "file:")
    \o yalcPackagesFolder \o "/" \o pkgName

\* `localPkg.dependencies || {}`: a missing field yields a fresh object that is
\* not attached to localPkg, so what is stored in it is lost
FieldGet(field, key) == IF field.present THEN field.map[key] ELSE ""
FieldSet(field, key, val) ==
  IF field.present THEN [field EXCEPT !.map[key] = val] ELSE field

\* devDependencies[pkg.name] ? devDependencies : dependencies
whereToRemove(localPkg, pkgName) ==
  IF FieldGet(localPkg.devDependencies, pkgName) # "" THEN "devDependencies"
  ELSE "dependencies"

\* options.dev || whereToRemove === devDependencies ? devDependencies : dependencies
whereToAdd(opts, from) ==
  IF Truthy(opts.dev) \/ from = "devDependencies" THEN "devDependencies"
  ELSE "dependencies"

\* the manifest step of one package in copy mode: the updated in-memory
\* manifest, whether it was marked as updated, and the replaced value
InjectDependency(localPkg, pkgName, opts) ==
  LET addr == localAddress(opts, pkgName)
      from == whereToRemove(localPkg, pkgName)
      old == FieldGet(localPkg[from], pkgName)
      to == whereToAdd(opts, from)
      added == [localPkg EXCEPT ![to] = FieldSet(localPkg[to], pkgName, addr)]
      moved == IF to # from
               THEN [added EXCEPT ![from] = FieldSet(added[from], pkgName, "")]
               ELSE added
  IN IF old # addr
     THEN [localPkg |-> moved, updated |-> TRUE, replaced |-> old]
     ELSE [localPkg |-> localPkg, updated |-> FALSE, replaced |-> ""]

\* mutant: the staged signature is never found equal
alreadyStaged_Never(signature, staged) == FALSE

\* signature === readSignatureFile(localPackageDir)
alreadyStaged(signature, staged) == signature = readSignatureFile(staged)

\* mutant: the node_modules entry is copied even in link mode
nodeModulesEntry_AlwaysCopy(opts) == "copy"

\* the node_modules/<name> entry after the replacement
nodeModulesEntry(opts) == IF Truthy(opts.link) THEN "link_own_yalc" ELSE "copy"

\* mutant: the install result drops the signature it was given
installResult_NoSignature(signature, name, version, replaced, workingDir) ==
  [signature |-> NoSig, name |-> name, version |-> version,
   replaced |-> replaced, path |-> workingDir]

\* mutant: the install result names another directory than the consumer's
installResult_OtherPath(signature, name, version, replaced, workingDir) ==
  [signature |-> signature, name |-> name, version |-> version,
   replaced |-> replaced, path |-> ""]

\* the value the packages.map(...) callback returns for an installed package
installResult(signature, name, version, replaced, workingDir) ==
  [signature |-> signature, name |-> name, version |-> version,
   replaced |-> replaced, path |-> workingDir]

\* one element of the packages.map(...) callback
AddOne(acc, packageName, opts, st, workingDir) ==
  LET parsed == parsePackageName(packageName)
      name == parsed.name
      version == parsed.version
      versionToInstall ==
        IF version # "" THEN version ELSE getLatestPackageVersion(st, name)
  IN
  IF ~StoreHasName(st, name) THEN acc
  ELSE IF ~StoreHasVersion(st, name, versionToInstall) THEN acc
  ELSE
    LET pkg == StoreEntry(st, name, versionToInstall)
        signature == readSignatureFile(pkg)
        result(replaced) ==
          installResult(signature, name, version, replaced, workingDir)
    IN
    IF doPure(opts, acc.localPkg)
    THEN [acc EXCEPT !.addedInstalls = Append(@, result(""))]
    ELSE
      LET inj == IF ~Truthy(opts.link)
                 THEN InjectDependency(acc.localPkg, name, opts)
                 ELSE [localPkg |-> acc.localPkg, updated |-> FALSE,
                       replaced |-> ""]
          acc1 == [acc EXCEPT !.localPkg = inj.localPkg,
                              !.localPkgUpdated = @ \/ inj.updated]
      IN
      IF alreadyStaged(signature, acc.yalc[name]) THEN acc1
      ELSE [acc1 EXCEPT
              !.yalc[name] = [signature |-> signature, version |-> pkg.version],
              !.nm[name] = nodeModulesEntry(opts),
              !.bins = IF pkg.bin THEN @ \cup {name} ELSE @,
              !.replacedDirs = Append(@, name),
              !.addedInstalls = Append(@, result(inj.replaced))]

\* the tests of lines 86-102: the package is found in the store
resolves(packageName, st) ==
  LET parsed == parsePackageName(packageName)
      versionToInstall ==
        IF parsed.version # "" THEN parsed.version
        ELSE getLatestPackageVersion(st, parsed.name)
  IN /\ StoreHasName(st, parsed.name)
     /\ StoreHasVersion(st, parsed.name, versionToInstall)

\* mutant: the first package that is not found ends the batch
RECURSIVE AddAll_AbortsOnFailure(_, _, _, _, _)
AddAll_AbortsOnFailure(acc, packages, opts, st, workingDir) ==
  IF packages = <<>> THEN acc
  ELSE IF ~resolves(Head(packages), st) THEN acc
  ELSE AddAll_AbortsOnFailure(
         AddOne(acc, Head(packages), opts, st, workingDir),
         Tail(packages), opts, st, workingDir)

RECURSIVE AddAll(_, _, _, _, _)
AddAll(acc, packages, opts, st, workingDir) ==
  IF packages = <<>> THEN acc
  ELSE AddAll(AddOne(acc, Head(packages), opts, st, workingDir),
              Tail(packages), opts, st, workingDir)

\* what is persisted: a dependency field that became empty is dropped
NormalizeField(field) ==
  IF field.present /\ field.map = EmptyMap THEN NoField ELSE field

writePackage(localPkg) ==
  [localPkg EXCEPT !.dependencies = NormalizeField(@),
                   !.devDependencies = NormalizeField(@)]

\* mutant: the link flag follows linkDep even in pure mode
LockfileEntry_LinkIgnoresPure(i, opts, pure) ==
  [present |-> TRUE, version |-> i.version, replaced |-> i.replaced,
   pure |-> pure,
   file |-> ~Truthy(opts.link) /\ ~Truthy(opts.linkDep) /\ ~pure,
   link |-> Truthy(opts.linkDep),
   signature |-> i.signature]

\* the flags handed to addPackageToLockfile
LockfileEntry(i, opts, pure) ==
  [present |-> TRUE, version |-> i.version, replaced |-> i.replaced,
   pure |-> pure,
   file |-> ~Truthy(opts.link) /\ ~Truthy(opts.linkDep) /\ ~pure,
   link |-> Truthy(opts.linkDep) /\ ~pure,
   signature |-> i.signature]

RECURSIVE addPackageToLockfile(_, _, _, _)
addPackageToLockfile(lock, installs, opts, pure) ==
  IF installs = <<>> THEN lock
  ELSE addPackageToLockfile(
         [lock EXCEPT ![Head(installs).name] =
                         LockfileEntry(Head(installs), opts, pure)],
         Tail(installs), opts, pure)

addInstallations(reg, installs) ==
  [n \in Names |->
     reg[n] \cup {i.path : i \in {j \in SeqToSet(installs) : j.name = n}}]

\* the whole of addPackages(packages, options) in project workingDir, as a
\* function of the state it reads; the result carries the new state and what
\* the call did
AddPackages(packages, opts, workingDir, mf, yd, nm, bl, lk, reg, st) ==
  LET localPkg == mf[workingDir]
      pure == doPure(opts, localPkg)
      acc0 == [localPkg |-> localPkg, localPkgUpdated |-> FALSE,
               yalc |-> yd[workingDir], nm |-> nm[workingDir],
               bins |-> bl[workingDir], addedInstalls |-> <<>>,
               replacedDirs |-> <<>>]
      acc == AddAll(acc0, packages, opts, st, workingDir)
  IN [manifest |-> IF acc.localPkgUpdated
                   THEN [mf EXCEPT ![workingDir] = writePackage(acc.localPkg)]
                   ELSE mf,
      yalcDir |-> [yd EXCEPT ![workingDir] = acc.yalc],
      nodeModules |-> [nm EXCEPT ![workingDir] = acc.nm],
      binLinks |-> [bl EXCEPT ![workingDir] = acc.bins],
      lockfile |-> [lk EXCEPT ![workingDir] =
                      addPackageToLockfile(@, acc.addedInstalls, opts, pure)],
      installations |-> addInstallations(reg, acc.addedInstalls),
      addedInstalls |-> acc.addedInstalls,
      replacedDirs |-> acc.replacedDirs,
      written |-> acc.localPkgUpdated,
      pure |-> pure]

\* the record kept of an addPackages call
NoCall == [active |-> FALSE]
CallRecord(packages, opts, workingDir, by, res) ==
  [active |-> TRUE, by |-> by, repeat |-> FALSE,
   packages |-> packages, options |-> opts,
   workingDir |-> workingDir, pure |-> res.pure,
   addedInstalls |-> res.addedInstalls, replacedDirs |-> res.replacedDirs,
   written |-> res.written,
   before |-> [manifest |-> manifest[workingDir],
               yalcDir |-> yalcDir[workingDir],
               nodeModules |-> nodeModules[workingDir],
               lockfile |-> lockfile[workingDir],
               binLinks |-> binLinks[workingDir],
               installations |-> installations,
               store |-> store]]

\* --------------------------------------------------------------- Publish engine
PreScriptNames == <<"preyalc", "prepare", "prepublishOnly", "prepublish">>
PostScriptNames == <<"postyalc", "postpublish">>

NoOptions ==
  [force |-> FALSE, changed |-> FALSE, push |-> FALSE, pushSafe |-> FALSE,
   private |-> FALSE, recursive |-> FALSE]

Event(ev, name, dir, arg) == [ev |-> ev, name |-> name, dir |-> dir, arg |-> arg]

\* mutant: the private flag of the manifest is not looked at
privateGuard_Ignored(pkg, opts) == FALSE

\* pkg.private && !options.private
privateGuard(pkg, opts) == pkg.private /\ ~opts.private

\* mutant: no package is ever found in the visited set
alreadyPublished_Never(visited, name) == FALSE

\* publishedNames.has(pkg.name)
alreadyPublished(visited, name) == name \in visited

\* mutant: the name is not recorded in the visited set
markPublished_Forgets(visited, name) == visited

\* publishedNames.add(pkg.name)
markPublished(visited, name) == visited \cup {name}

\* isLink(depDir)
isLink(kind) == kind \in {"link_own_yalc", "link_other_yalc", "link_project"}

\* target.includes(YALC_DIR)
targetIncludesYalcDir(kind) == kind \in {"link_own_yalc", "link_other_yalc"}

\* the test of lines 346-350 on one direct dependency of the package in pkgDir
qualifies(mf, nm, pkgDir, name) ==
  /\ isLink(nm[pkgDir][name])
  /\ ~targetIncludesYalcDir(nm[pkgDir][name])
  /\ ~mf[name].private

\* for (const name in deps)
depNames(pkg) ==
  FilterSeq(NameOrder, {n \in Names : pkg.dependencies.map[n] # ""})

\* mutant: the dependencies are never scanned
scansDeps_Never(pkg, opts) == FALSE

\* deps && options.recursive
scansDeps(pkg, opts) == pkg.dependencies.present /\ opts.recursive

Frame(name, pkg, opts) ==
  [name |-> name,
   phase |-> "enter",
   todo |-> IF scansDeps(pkg, opts) THEN depNames(pkg) ELSE <<>>,
   scans |-> scansDeps(pkg, opts),
   namesToAdd |-> <<>>]

\* scriptNames.filter(name => !!scripts[name])[0]
firstScript(scriptNames, scripts) ==
  LET found == FilterSeq(scriptNames, scripts.names)
  IN IF found = <<>> THEN "" ELSE Head(found)

\* mutant: the force option is not looked at
scriptRunCmd_IgnoresForce(pkg, opts) == pkg.scripts.present

\* !options.force && pkg.scripts ? getPackageManager(pkgDir) + ' run ' : ''
scriptRunCmd(pkg, opts) == ~opts.force /\ pkg.scripts.present

scriptToRun(scriptNames, pkg, opts) ==
  IF scriptRunCmd(pkg, opts) THEN firstScript(scriptNames, pkg.scripts) ELSE ""

\* copyPackageToStore: FALSE when change detection finds the stored signature
\* of this version equal to the signature of the working tree
copyUnchanged(st, name, pkg, cont, opts) ==
  /\ opts.changed
  /\ StoreHasVersion(st, name, pkg.version)
  /\ readSignatureFile(StoreEntry(st, name, pkg.version))
       = Signature(pkg.version, cont)

RECURSIVE RemoveVersion(_, _)
RemoveVersion(entries, version) ==
  IF entries = <<>> THEN <<>>
  ELSE IF Head(entries).version = version
       THEN RemoveVersion(Tail(entries), version)
       ELSE <<Head(entries)>> \o RemoveVersion(Tail(entries), version)

\* the store after copyPackageToStore wrote (name, pkg.version)
copyPackageToStore(st, name, pkg, cont) ==
  [st EXCEPT ![name] =
     Append(RemoveVersion(@, pkg.version),
            [version |-> pkg.version,
             signature |-> Signature(pkg.version, cont),
             bin |-> pkg.bin])]

\* mutant: the push options are not looked at
pushRequested_Never(opts) == FALSE

\* options.push || options.pushSafe
pushRequested(opts) == opts.push \/ opts.pushSafe

\* installationsConfig[pkg.name] || []
installationPaths(reg, name) == FilterSeq(NameOrder, reg[name])

\* the options updatePackages replays an installation with
updateOptions(entry) ==
  IF entry.file THEN AddPackagesOptionsDefault
  ELSE IF entry.link
       THEN [AddPackagesOptionsDefault EXCEPT !.linkDep = "true", !.pure = "false"]
  ELSE IF entry.pure
       THEN [AddPackagesOptionsDefault EXCEPT !.pure = "true"]
  ELSE [AddPackagesOptionsDefault EXCEPT !.link = "true", !.pure = "false"]

removeInstallations(reg, entries) ==
  [n \in Names |-> reg[n] \ {e[2] : e \in {x \in entries : x[1] = n}}]

\* ------------------------------------------------------------------- inputs
AddOptionSets ==
  [dev : {"true", "undefined"}, link : {"true", "undefined"},
   linkDep : {"true", "undefined"}, pure : Opt3]

PushModes == {<<FALSE, FALSE>>, <<TRUE, FALSE>>, <<FALSE, TRUE>>}

PublishOptionSets(forces, changeds, pushes, privates, recursives) ==
  {[force |-> f, changed |-> c, push |-> p[1], pushSafe |-> p[2],
    private |-> pr, recursive |-> r] :
     f \in forces, c \in changeds, p \in pushes, pr \in privates,
     r \in recursives}

\* ------------------------------------------------------------ initial states
Edges == {<<p, d>> \in Names \X Names : p # d}

NoScripts == [present |-> FALSE, names |-> {}]

PlainManifest ==
  [version |-> "1.0.0", private |-> FALSE, workspaces |-> FALSE,
   bin |-> FALSE, scripts |-> NoScripts,
   dependencies |-> [present |-> TRUE, map |-> EmptyMap],
   devDependencies |-> NoField]

\* a dependency field listing the packages of S with a registry range
Listing(S) ==
  [present |-> TRUE, map |-> [n \in Names |-> IF n \in S THEN "^1.0.0" ELSE ""]]

\* node_modules of a project whose dependencies of S are linked to their
\* project directories (npm link / yarn link)
Linked(S) == [n \in Names |-> IF n \in S THEN "link_project" ELSE "none"]

InitCommon ==
  /\ content = [d \in Names |-> 1]
  /\ store = [n \in Names |-> <<>>]
  /\ yalcDir = [d \in Names |-> [n \in Names |-> NoStaged]]
  /\ binLinks = [d \in Names |-> {}]
  /\ lockfile = [d \in Names |-> [n \in Names |-> NoLock]]
  /\ installations = [n \in Names |-> {}]
  /\ pc = "Idle"
  /\ options = NoOptions
  /\ root = ""
  /\ stack = <<>>
  /\ publishedNames = {}
  /\ pushTodo = <<>>
  /\ toRemove = {}
  /\ log = <<>>
  /\ threw = FALSE
  /\ startLinks = {}
  /\ addCall = NoCall
  /\ adds = 0

\* ------------------------------------------------------------------- actions
Idle == pc = "Idle"

ApplyAdd(res) ==
  /\ manifest' = res.manifest
  /\ yalcDir' = res.yalcDir
  /\ nodeModules' = res.nodeModules
  /\ binLinks' = res.binLinks
  /\ lockfile' = res.lockfile
  /\ installations' = res.installations

CallAdd(packages, opts, workingDir) ==
  AddPackages(packages, opts, workingDir, manifest, yalcDir, nodeModules,
              binLinks, lockfile, installations, store)

\* yalc add / yalc link in project dir
Add(dir, packages, opts) ==
  /\ Idle
  /\ adds < MaxAdds
  /\ adds' = adds + 1
  /\ \E res \in {CallAdd(packages, opts, dir)} :
        /\ ApplyAdd(res)
        /\ addCall' = CallRecord(packages, opts, dir, "user", res)
  /\ pc' = "Added"
  /\ UNCHANGED <<content, store, options, root, stack, publishedNames,
                 pushTodo, toRemove, log, threw,
                 startLinks>>

\* the author edits the files of the working tree of dir
Edit(dir) ==
  /\ Idle
  /\ \E c \in 1..MaxContent :
       /\ c # content[dir]
       /\ content' = [content EXCEPT ![dir] = c]
  /\ UNCHANGED <<manifest, store, yalcDir, nodeModules, binLinks, lockfile,
                 installations, pc, options, root, stack, publishedNames,
                 pushTodo, toRemove, log, threw, addCall, adds,
                 startLinks>>

\* the user runs the add command they have just run once more
AddAgain ==
  /\ pc = "Added"
  /\ adds < MaxAdds
  /\ adds' = adds + 1
  /\ \E res \in {CallAdd(addCall.packages, addCall.options,
                          addCall.workingDir)} :
        /\ ApplyAdd(res)
        /\ addCall' = [CallRecord(addCall.packages, addCall.options,
                                  addCall.workingDir, "user", res)
                         EXCEPT !.repeat = TRUE]
  /\ UNCHANGED <<content, store, pc, options, root, stack, publishedNames,
                 pushTodo, toRemove, log, threw,
                 startLinks>>

\* the author changes the version in the manifest of dir
Bump(dir) ==
  /\ Idle
  /\ \E v \in Versions :
       /\ v # manifest[dir].version
       /\ manifest' = [manifest EXCEPT ![dir].version = v]
  /\ UNCHANGED <<content, store, yalcDir, nodeModules, binLinks, lockfile,
                 installations, pc, options, root, stack, publishedNames,
                 pushTodo, toRemove, log, threw, addCall, adds,
                 startLinks>>

\* the dependency edges the traversal would follow in the present state
QualifyingLinks ==
  {e \in Names \X Names :
     /\ manifest[e[1]].dependencies.map[e[2]] # ""
     /\ qualifies(manifest, nodeModules, e[1], e[2])}

\* publishPackage(options) in project dir, up to the call of publishDepthFirst
PublishPackage(dir, opts) ==
  /\ Idle
  /\ options' = opts
  /\ root' = dir
  /\ IF privateGuard(manifest[dir], opts)
     THEN pc' = "Done" /\ stack' = <<>>
     ELSE pc' = "Traverse" /\ stack' = <<Frame(dir, manifest[dir], opts)>>
  /\ startLinks' = QualifyingLinks
  /\ UNCHANGED <<manifest, content, store, yalcDir, nodeModules, binLinks,
                 lockfile, installations, publishedNames, pushTodo, toRemove,
                 log, threw, addCall, adds>>

Top == stack[Len(stack)]

\* the stack after the innermost publishDepthFirst call returned: its caller
\* pushes the name of the dependency onto namesToAdd
Returned(stk) ==
  LET callee == stk[Len(stk)]
      rest == SubSeq(stk, 1, Len(stk) - 1)
  IN IF rest = <<>> THEN <<>>
     ELSE [rest EXCEPT ![Len(rest)].namesToAdd = Append(@, callee.name)]

Return ==
  /\ stack' = Returned(stack)
  /\ IF Returned(stack) # <<>>
     THEN pc' = "Traverse" /\ pushTodo' = pushTodo
     ELSE IF pushRequested(options)
          THEN /\ pc' = "Push"
               /\ pushTodo' = installationPaths(installations, root)
          ELSE pc' = "Done" /\ pushTodo' = pushTodo

\* publishDepthFirst: the visited test on entry
Enter ==
  /\ pc = "Traverse" /\ Top.phase = "enter"
  /\ IF alreadyPublished(publishedNames, Top.name)
     THEN Return /\ UNCHANGED publishedNames
     ELSE /\ publishedNames' = markPublished(publishedNames, Top.name)
          /\ stack' = [stack EXCEPT ![Len(stack)].phase =
                         IF Top.scans THEN "scan" ELSE "pre"]
          /\ UNCHANGED <<pc, pushTodo>>
  /\ addCall' = NoCall
  /\ UNCHANGED <<manifest, content, store, yalcDir, nodeModules, binLinks,
                 lockfile, installations, options, root, toRemove, log, threw,
                 adds,
                 startLinks>>

\* publishDepthFirst: one iteration of the loop over the dependencies
ScanDep ==
  /\ pc = "Traverse" /\ Top.phase = "scan" /\ Top.todo # <<>>
  /\ LET name == Head(Top.todo)
         next == [stack EXCEPT ![Len(stack)].todo = Tail(@)]
     IN IF qualifies(manifest, nodeModules, Top.name, name)
        THEN /\ Len(stack) < MaxDepth
             /\ stack' = Append(next, Frame(name, manifest[name], options))
        ELSE stack' = next
  /\ addCall' = NoCall
  /\ UNCHANGED <<manifest, content, store, yalcDir, nodeModules, binLinks,
                 lockfile, installations, pc, options, root, publishedNames,
                 pushTodo, toRemove, log, threw, adds,
                 startLinks>>

\* publishDepthFirst: addPackages(namesToAdd, { workingDir: pkgDir })
AddDeps ==
  /\ pc = "Traverse" /\ Top.phase = "scan" /\ Top.todo = <<>>
  /\ \E res \in {CallAdd(Top.namesToAdd, AddPackagesOptionsDefault, Top.name)} :
        /\ ApplyAdd(res)
        /\ addCall' = CallRecord(Top.namesToAdd, AddPackagesOptionsDefault,
                                 Top.name, "publish", res)
  /\ stack' = [stack EXCEPT ![Len(stack)].phase = "pre"]
  /\ log' = Append(log, Event("add", Top.name, Top.name, Top.namesToAdd))
  /\ UNCHANGED <<content, store, pc, options, root, publishedNames, pushTodo,
                 toRemove, threw, adds,
                 startLinks>>

\* execSync throws: the exception leaves publishPackage
Throw ==
  /\ pc' = "Done"
  /\ threw' = TRUE
  /\ stack' = <<>>

\* publish: entry and the pre-publish script
RunPre ==
  /\ pc = "Traverse" /\ Top.phase = "pre"
  /\ LET script == scriptToRun(PreScriptNames, manifest[Top.name], options)
         entered == Append(log, Event("publish", Top.name, Top.name, <<>>))
     IN IF script = ""
        THEN /\ log' = entered
             /\ stack' = [stack EXCEPT ![Len(stack)].phase = "copy"]
             /\ UNCHANGED <<pc, threw>>
        ELSE /\ log' = Append(entered,
                              Event("script", Top.name, Top.name, <<script>>))
             /\ \/ /\ stack' = [stack EXCEPT ![Len(stack)].phase = "copy"]
                   /\ UNCHANGED <<pc, threw>>
                \/ Throw
  /\ addCall' = NoCall
  /\ UNCHANGED <<manifest, content, store, yalcDir, nodeModules, binLinks,
                 lockfile, installations, options, root, publishedNames,
                 pushTodo, toRemove, adds,
                 startLinks>>

\* publish: copyPackageToStore and the change detection
Copy ==
  /\ pc = "Traverse" /\ Top.phase = "copy"
  /\ IF copyUnchanged(store, Top.name, manifest[Top.name], content[Top.name],
                      options)
     THEN /\ log' = Append(log, Event("copy", Top.name, Top.name, <<"unchanged">>))
          /\ Return
          /\ UNCHANGED store
     ELSE /\ log' = Append(log, Event("copy", Top.name, Top.name, <<"stored">>))
          /\ store' = copyPackageToStore(store, Top.name, manifest[Top.name],
                                         content[Top.name])
          /\ stack' = [stack EXCEPT ![Len(stack)].phase = "post"]
          /\ UNCHANGED <<pc, pushTodo>>
  /\ addCall' = NoCall
  /\ UNCHANGED <<manifest, content, yalcDir, nodeModules, binLinks, lockfile,
                 installations, options, root, publishedNames, toRemove, threw,
                 adds,
                 startLinks>>

\* publish: the post-publish script, then return to the caller
RunPost ==
  /\ pc = "Traverse" /\ Top.phase = "post"
  /\ LET script == scriptToRun(PostScriptNames, manifest[Top.name], options)
     IN IF script = ""
        THEN /\ log' = log
             /\ Return
             /\ UNCHANGED threw
        ELSE /\ log' = Append(log,
                              Event("script", Top.name, Top.name, <<script>>))
             /\ \/ Return /\ UNCHANGED threw
                \/ Throw /\ UNCHANGED pushTodo
  /\ addCall' = NoCall
  /\ UNCHANGED <<manifest, content, store, yalcDir, nodeModules, binLinks,
                 lockfile, installations, options, root, publishedNames,
                 toRemove, adds,
                 startLinks>>

\* the push loop: updatePackages([pkg.name], { workingDir, noInstallationsRemove })
PushOne ==
  /\ pc = "Push" /\ pushTodo # <<>>
  /\ LET dir == Head(pushTodo)
         entry == lockfile[dir][root]
         packages == <<Specifier(root, entry.version)>>
         res == CallAdd(packages, updateOptions(entry), dir)
     IN IF entry.present
        THEN /\ ApplyAdd(res)
             /\ addCall' = CallRecord(packages, updateOptions(entry), dir,
                                      "push", res)
             /\ UNCHANGED toRemove
        ELSE /\ toRemove' = toRemove \cup {<<root, dir>>}
             /\ addCall' = NoCall
             /\ UNCHANGED <<manifest, yalcDir, nodeModules, binLinks, lockfile,
                            installations>>
  /\ pushTodo' = Tail(pushTodo)
  /\ log' = Append(log, Event("push", root, Head(pushTodo), <<>>))
  /\ UNCHANGED <<content, store, pc, options, root, stack, publishedNames,
                 threw, adds,
                 startLinks>>

\* end of the push loop: removeInstallations(installationsToRemove)
PushEnd ==
  /\ pc = "Push" /\ pushTodo = <<>>
  /\ installations' = removeInstallations(installations, toRemove)
  /\ pc' = "Done"
  /\ addCall' = NoCall
  /\ UNCHANGED <<manifest, content, store, yalcDir, nodeModules, binLinks,
                 lockfile, options, root, stack, publishedNames, pushTodo,
                 toRemove, log, threw, adds,
                 startLinks>>

\* the command has ended: only the files remain
Exit ==
  /\ pc \in {"Done", "Added"}
  /\ pc' = "Idle"
  /\ options' = NoOptions
  /\ root' = ""
  /\ stack' = <<>>
  /\ publishedNames' = {}
  /\ pushTodo' = <<>>
  /\ toRemove' = {}
  /\ log' = <<>>
  /\ threw' = FALSE
  /\ startLinks' = {}
  /\ addCall' = NoCall
  /\ UNCHANGED <<manifest, content, store, yalcDir, nodeModules, binLinks,
                 lockfile, installations, adds>>

\* --------------------------------------------- the Add/Link engine at work
\* Project C consumes package A, whose author changes its version (and with
\* it the signature) between publishes; B is never published. The manifest
\* of C starts in any of the shapes below.
AddBatches == {<<"A">>, <<"A@1.0.0">>, <<"@1.0.0", "B", "A">>}

ConsumerManifests ==
  {[PlainManifest EXCEPT !.dependencies = deps, !.devDependencies = dev] :
     deps \in {NoField, Listing({}), Listing({"A"}), Listing({"B"})},
     dev \in {NoField, Listing({}), Listing({"A"})}}
  \cup
  {[PlainManifest EXCEPT !.dependencies = deps, !.workspaces = TRUE] :
     deps \in {NoField, Listing({"A"})}}

InitAdd ==
  /\ InitCommon
  /\ \E m \in ConsumerManifests :
       manifest = [d \in Names |->
                     IF d = "C" THEN m
                     ELSE [PlainManifest EXCEPT !.bin = (d = "A")]]
  /\ nodeModules = [d \in Names |-> Linked({})]

AddUserAdd == \E b \in AddBatches, o \in AddOptionSets : Add("C", b, o)
AddUserBump == Bump("A")
AddUserPublish ==
  \E d \in {"A"},
     o \in PublishOptionSets({FALSE}, BOOLEAN, {<<FALSE, FALSE>>}, {FALSE},
                             {FALSE}) :
    PublishPackage(d, o)

NextAdd ==
  \/ AddUserAdd
  \/ AddAgain
  \/ AddUserBump
  \/ AddUserPublish
  \/ Enter
  \/ RunPre
  \/ Copy
  \/ RunPost
  \/ Exit

SpecAdd == InitAdd /\ [][NextAdd]_vars

\* ------------------------------------------- the recursive publish at work
\* The projects A, B and C depend on each other through npm/yarn links in
\* one of the shapes below; any of them is published, with any options but
\* push.
LinkGraphs ==
  { {},
    {<<"A", "B">>, <<"B", "A">>},
    {<<"A", "B">>, <<"A", "C">>},
    {<<"A", "B">>, <<"A", "C">>, <<"B", "C">>},
    {<<"A", "B">>, <<"B", "C">>, <<"C", "A">>},
    Edges }

ScriptChoices ==
  { NoScripts,
    [present |-> TRUE, names |-> {"prepare", "prepublish", "postpublish"}],
    [present |-> TRUE, names |-> {"preyalc", "prepublishOnly", "postyalc",
                                  "postpublish"}] }

LinkedManifest(d, links, privates, scripts) ==
  [PlainManifest EXCEPT
     !.private = d \in privates,
     !.scripts = scripts,
     !.dependencies = Listing({n \in Names : <<d, n>> \in links})]

InitPublish ==
  /\ InitCommon
  /\ \E links \in LinkGraphs, privates \in {{}, {"B"}},
        scripts \in ScriptChoices :
       /\ manifest =
            [d \in Names |-> LinkedManifest(d, links, privates, scripts)]
       /\ nodeModules =
            [d \in Names |-> Linked({n \in Names : <<d, n>> \in links})]

PubUserPublish ==
  \E d \in Names,
     o \in PublishOptionSets(BOOLEAN, BOOLEAN, {<<FALSE, FALSE>>}, BOOLEAN,
                             BOOLEAN) :
    PublishPackage(d, o)

NextPublish ==
  \/ PubUserPublish
  \/ Enter
  \/ ScanDep
  \/ AddDeps
  \/ RunPre
  \/ Copy
  \/ RunPost
  \/ Exit

SpecPublish == InitPublish /\ [][NextPublish]_vars

\* AddDeps seen from the call stack: the traversal stands before the
\* addPackages call and moves on to the publish of the package
AddDepsAdvance ==
  /\ pc = "Traverse" /\ Top.phase = "scan" /\ Top.todo = <<>>
  /\ stack' = [stack EXCEPT ![Len(stack)].phase = "pre"]

\* the process keeps running and every script it starts ends
SpecPublishFair ==
  /\ SpecPublish
  /\ WF_vars(Enter \/ ScanDep \/ RunPre \/ Copy \/ RunPost)
  /\ WF_stack(AddDepsAdvance)

\* ---------------------------------------------------- publish and push at work
\* Package A (which links its dependency B in one of the initial states) is
\* consumed by B and C, which add it in copy, link or pure mode; its author
\* edits it and publishes it with any options.
PushAddOptionSets ==
  {AddPackagesOptionsDefault,
   [AddPackagesOptionsDefault EXCEPT !.link = "true"],
   [AddPackagesOptionsDefault EXCEPT !.pure = "true"]}

PushScripts == [present |-> TRUE, names |-> {"prepare", "postpublish"}]

InitPush ==
  /\ InitCommon
  /\ \E links \in {{}, {<<"A", "B">>}}, privates \in {{}, {"A"}} :
       /\ manifest =
            [d \in Names |-> LinkedManifest(d, links, privates, PushScripts)]
       /\ nodeModules =
            [d \in Names |-> Linked({n \in Names : <<d, n>> \in links})]

PushUserAdd ==
  \E e \in {<<"C", "A">>, <<"B", "A">>, <<"C", "B">>}, o \in PushAddOptionSets :
    Add(e[1], <<e[2]>>, o)
PushUserEdit == Edit("A")
PushUserPublish ==
  \E o \in PublishOptionSets({FALSE}, BOOLEAN, PushModes, BOOLEAN, BOOLEAN) :
    PublishPackage("A", o)

NextPush ==
  \/ PushUserAdd
  \/ PushUserEdit
  \/ PushUserPublish
  \/ Enter
  \/ ScanDep
  \/ AddDeps
  \/ RunPre
  \/ Copy
  \/ RunPost
  \/ PushOne
  \/ PushEnd
  \/ Exit

SpecPush == InitPush /\ [][NextPush]_vars

\* ------------------------------------------- the dependency test at work
\* Project A lists B and C as dependencies and B lists C; the entries of
\* node_modules are of any kind; A is published, recursively or not, any
\* number of times.
EntryKinds == {"none", "copy", "link_own_yalc", "link_other_yalc", "link_project"}

InitLinks ==
  /\ InitCommon
  /\ \E privates \in {{}, {"B"}, {"C"}} :
       manifest =
         [d \in Names |->
            LinkedManifest(d, {<<"A", "B">>, <<"A", "C">>, <<"B", "C">>},
                           privates, NoScripts)]
  /\ \E ab \in EntryKinds, ac \in EntryKinds,
        bc \in {"link_other_yalc", "link_project"} :
       nodeModules =
         [d \in Names |->
            [n \in Names |->
               IF <<d, n>> = <<"A", "B">> THEN ab
               ELSE IF <<d, n>> = <<"A", "C">> THEN ac
               ELSE IF <<d, n>> = <<"B", "C">> THEN bc
               ELSE "none"]]

LinksUserPublish ==
  \E o \in PublishOptionSets({FALSE}, {FALSE}, {<<FALSE, FALSE>>}, {FALSE},
                              BOOLEAN) :
    PublishPackage("A", o)

NextLinks ==
  \/ LinksUserPublish
  \/ Enter
  \/ ScanDep
  \/ AddDeps
  \/ RunPre
  \/ Copy
  \/ RunPost
  \/ Exit

SpecLinks == InitLinks /\ [][NextLinks]_vars

\* ------------------------------------------------- properties of addPackages
\* the names the call produced an install result for
Installed == {i.name : i \in SeqToSet(addCall.addedInstalls)}

\* the requested packages that resolve to a store entry
Resolvable ==
  {r \in {parsePackageName(s) : s \in SeqToSet(addCall.packages)} :
     /\ StoreHasName(store, r.name)
     /\ StoreHasVersion(store, r.name,
          IF r.version # "" THEN r.version
          ELSE getLatestPackageVersion(store, r.name))}

ResolvedEntry(r) ==
  StoreEntry(store, r.name,
             IF r.version # "" THEN r.version
             ELSE getLatestPackageVersion(store, r.name))

CopyModeCall ==
  addCall.active /\ ~addCall.pure /\ ~Truthy(addCall.options.link)

LinkModeCall ==
  addCall.active /\ ~addCall.pure /\ Truthy(addCall.options.link)

\* C2: after addPackages installed P in copy mode (not pure, not link), the
\* persisted consumer manifest lists P in the chosen dependency field
\* (devDependencies if dev is set or P was listed there, else dependencies)
\* with the locator file:.yalc/P, or link:.yalc/P when linkDep is set.
C2_LocatorPersisted ==
  CopyModeCall =>
    \A n \in Installed :
      LET field == IF \/ Truthy(addCall.options.dev)
                      \/ addCall.before.manifest.devDependencies.map[n] # ""
                   THEN "devDependencies" ELSE "dependencies"
          locator == (IF Truthy(addCall.options.linkDep)
                      THEN "link:.yalc/" ELSE "file:.yalc/") \o n
      IN manifest[addCall.workingDir][field].map[n] = locator

\* C6: an add command run a second time with the same arguments, nothing
\* having changed in between, is a no-op: no staging directory or
\* node_modules entry is replaced, the manifest and the lockfile of the
\* consumer are as the first call left them, and outside pure mode the
\* staged-signature test skips every package.
C6_AddIdempotent ==
  (addCall.active /\ addCall.repeat) =>
    /\ addCall.replacedDirs = <<>>
    /\ yalcDir[addCall.workingDir] = addCall.before.yalcDir
    /\ nodeModules[addCall.workingDir] = addCall.before.nodeModules
    /\ manifest[addCall.workingDir] = addCall.before.manifest
    /\ lockfile[addCall.workingDir] = addCall.before.lockfile
    /\ (~addCall.pure => addCall.addedInstalls = <<>>)

C6_Witness ==
  /\ addCall.active /\ addCall.repeat /\ ~addCall.pure
  /\ Resolvable # {}
  /\ \A r \in Resolvable :
       yalcDir[addCall.workingDir][r.name].signature = ResolvedEntry(r).signature

\* C7: for every package an addPackages call installed, the lockfile entry of
\* the consumer carries the signature persisted with the store entry that was
\* installed.
C7_SignatureRoundTrip ==
  addCall.active =>
    \A i \in SeqToSet(addCall.addedInstalls) :
      LET entry == ResolvedEntry([name |-> i.name, version |-> i.version])
      IN /\ entry.signature # NoSig
         /\ lockfile[addCall.workingDir][i.name].present
         /\ lockfile[addCall.workingDir][i.name].signature = entry.signature

C7_Witness ==
  /\ addCall.active
  /\ "A" \in Installed
  /\ Len(store["A"]) = 2
  /\ lockfile[addCall.workingDir]["A"].signature
       = store["A"][2].signature

\* C8: every lockfile entry has at most one of pure, file, link set, and
\* neither file nor link when pure is set.
C8_FlagsExclusive ==
  \A d \in Names, n \in Names :
    LET e == lockfile[d][n]
    IN e.present =>
         /\ ~(e.pure /\ e.file) /\ ~(e.pure /\ e.link) /\ ~(e.file /\ e.link)
         /\ (e.pure => ~e.file /\ ~e.link)

C8_Witness ==
  /\ addCall.active /\ addCall.pure
  /\ Truthy(addCall.options.linkDep)
  /\ \E n \in Installed : lockfile[addCall.workingDir][n].pure

\* C9: after an addPackages call (in copy mode, where the call edits the
\* manifest) no package the call added is listed in both dependencies and
\* devDependencies of the consumer manifest.
C9_NeverInBoth ==
  CopyModeCall =>
    \A n \in Installed :
      ~ /\ manifest[addCall.workingDir].dependencies.map[n] # ""
        /\ manifest[addCall.workingDir].devDependencies.map[n] # ""

\* C10 as claimed: a link-mode add of a package that is in the store leaves
\* node_modules/<name> a symlink to the staging directory and the dependency
\* fields of the manifest unchanged.
C10_LinkAlwaysSymlinks ==
  LinkModeCall =>
    /\ \A r \in Resolvable :
         nodeModules[addCall.workingDir][r.name] = "link_own_yalc"
    /\ manifest[addCall.workingDir] = addCall.before.manifest

\* C10 as amended: a link-mode add replaces node_modules/<name> with a
\* symlink to the staging directory when the staged copy is absent or its
\* signature differs from the store entry's; when the staged signature
\* already equals it the package is skipped and node_modules/<name> stays as
\* it was; in both cases the manifest is not rewritten.
C10_LinkSymlinksUnlessStaged ==
  LinkModeCall =>
    /\ \A r \in Resolvable :
         IF addCall.before.yalcDir[r.name].signature = ResolvedEntry(r).signature
         THEN /\ r.name \notin Installed
              /\ nodeModules[addCall.workingDir][r.name]
                   = addCall.before.nodeModules[r.name]
         ELSE /\ r.name \in Installed
              /\ nodeModules[addCall.workingDir][r.name] = "link_own_yalc"
              /\ yalcDir[addCall.workingDir][r.name].signature
                   = ResolvedEntry(r).signature
    /\ manifest[addCall.workingDir] = addCall.before.manifest
    /\ ~addCall.written

C10_Witness ==
  /\ LinkModeCall
  /\ "A" \in Installed
  /\ addCall.before.nodeModules["A"] = "copy"
  /\ nodeModules[addCall.workingDir]["A"] = "link_own_yalc"

\* C11: an add is in pure mode exactly when pure is set, or pure is not given
\* and the consumer manifest declares workspaces (never when pure is false);
\* a pure-mode add leaves the consumer manifest, node_modules and the bin
\* links as they were.
C11_PureNoMutation ==
  addCall.active =>
    /\ addCall.pure <=>
         \/ addCall.options.pure = "true"
         \/ /\ addCall.options.pure = "undefined"
            /\ addCall.before.manifest.workspaces
    /\ addCall.pure =>
         /\ manifest[addCall.workingDir] = addCall.before.manifest
         /\ ~addCall.written
         /\ nodeModules[addCall.workingDir] = addCall.before.nodeModules
         /\ binLinks[addCall.workingDir] = addCall.before.binLinks

C11_Witness ==
  /\ addCall.active /\ addCall.pure
  /\ addCall.options.pure = "undefined"
  /\ "A" \in Installed
  /\ manifest[addCall.workingDir].dependencies.map["A"] = "^1.0.0"
  /\ nodeModules[addCall.workingDir]["A"] = "none"

\* C12: every package an addPackages call installed has, after the call, a
\* lockfile entry written from its install result and the consumer directory
\* registered under its name, in pure, copy and link mode alike; for every
\* other package the call leaves the lockfile entry and the registry as they
\* were.
C12_InstalledRecorded ==
  addCall.active =>
    \A n \in Names :
      IF n \in Installed
      THEN /\ \E i \in SeqToSet(addCall.addedInstalls) :
                /\ i.name = n
                /\ lockfile[addCall.workingDir][n].present
                /\ lockfile[addCall.workingDir][n].version = i.version
                /\ lockfile[addCall.workingDir][n].replaced = i.replaced
                /\ lockfile[addCall.workingDir][n].signature = i.signature
                /\ lockfile[addCall.workingDir][n].pure = addCall.pure
           /\ addCall.workingDir \in installations[n]
      ELSE /\ lockfile[addCall.workingDir][n] = addCall.before.lockfile[n]
           /\ installations[n] = addCall.before.installations[n]

C12_Witness ==
  /\ addCall.active /\ addCall.pure
  /\ addCall.packages = <<"@1.0.0", "B", "A">>
  /\ Installed = {"A"}
  /\ lockfile[addCall.workingDir]["A"].pure
  /\ installations["A"] = {addCall.workingDir}
  /\ installations["B"] = {}
  /\ ~lockfile[addCall.workingDir]["B"].present

\* the requests of the call that are found in the store, in order
FoundRequests ==
  FilterSeq(addCall.packages,
            {x \in SeqToSet(addCall.packages) :
               resolves(x, addCall.before.store)})

\* the call made with the found requests only, from the same state
CallOfFound ==
  LET wd == addCall.workingDir
  IN AddPackages(FoundRequests, addCall.options, wd,
                 [manifest EXCEPT ![wd] = addCall.before.manifest],
                 [yalcDir EXCEPT ![wd] = addCall.before.yalcDir],
                 [nodeModules EXCEPT ![wd] = addCall.before.nodeModules],
                 [binLinks EXCEPT ![wd] = addCall.before.binLinks],
                 [lockfile EXCEPT ![wd] = addCall.before.lockfile],
                 addCall.before.installations,
                 addCall.before.store)

\* C13: a request that cannot be parsed, whose package is not in the store or
\* whose version is not in the store yields no install result, and the call
\* leaves manifest, staging folder, node_modules, bin links, lockfile and
\* registry exactly as the call made with the other requests alone would.
C13_PartialFailure ==
  addCall.active =>
    /\ \A i \in SeqToSet(addCall.addedInstalls) :
         \E x \in SeqToSet(FoundRequests) :
           parsePackageName(x) = [name |-> i.name, version |-> i.version]
    /\ \E alone \in {CallOfFound} :
         /\ addCall.addedInstalls = alone.addedInstalls
         /\ manifest = alone.manifest
         /\ yalcDir = alone.yalcDir
         /\ nodeModules = alone.nodeModules
         /\ binLinks = alone.binLinks
         /\ lockfile = alone.lockfile
         /\ installations = alone.installations

C13_Witness ==
  /\ addCall.active /\ CopyModeCall
  /\ addCall.packages = <<"@1.0.0", "B", "A">>
  /\ FoundRequests = <<"A">>
  /\ Installed = {"A"}
  /\ nodeModules[addCall.workingDir]["A"] = "copy"
  /\ nodeModules[addCall.workingDir]["B"] = "none"
  /\ lockfile[addCall.workingDir]["A"].present
  /\ ~lockfile[addCall.workingDir]["B"].present

\* ------------------------------------------------ properties of publishPackage
PublishCount(n) == CountEv(log, {Event("publish", n, n, <<>>)})

RootUnchanged ==
  \E k \in 1..Len(log) : log[k] = Event("copy", root, root, <<"unchanged">>)

\* C1: in a publish with changed set whose root package was found unchanged,
\* no push is triggered: no registered consumer is updated, whatever push and
\* pushSafe are.
C1_UnchangedNoPush ==
  (options.changed /\ RootUnchanged) =>
    ~(addCall.active /\ addCall.by = "push" /\ addCall.replacedDirs # <<>>)

\* C3: within one publishPackage invocation the single-package publish is
\* invoked at most once per package name, whatever the link graph; when A and
\* B link each other and the recursive publish of one of them completes, each
\* of the two has been published exactly once.
C3_PublishedAtMostOnce ==
  /\ \A n \in Names : PublishCount(n) <= 1
  /\ ( /\ pc = "Done" /\ ~threw /\ options.recursive
       /\ root \in {"A", "B"}
       /\ ~privateGuard(manifest[root], options)
       /\ {<<"A", "B">>, <<"B", "A">>} \subseteq startLinks )
     => (PublishCount("A") = 1 /\ PublishCount("B") = 1)

C3_Witness ==
  /\ pc = "Done" /\ ~threw /\ options.recursive
  /\ {<<"A", "B">>, <<"B", "A">>} \subseteq startLinks
  /\ PublishCount("A") = 1 /\ PublishCount("B") = 1

\* C4: a running publishPackage invocation always ends, for every link graph;
\* each entry of publishDepthFirst that does not return at once adds a name
\* to the visited set, and the call stack stays below its cap.
C4_Terminates ==
  /\ [](pc = "Traverse" => <>(pc = "Done"))
  /\ [][(/\ pc = "Traverse" /\ Top.phase = "enter"
         /\ Len(stack') = Len(stack) /\ stack' # stack)
        => (publishedNames \subseteq publishedNames'
            /\ publishedNames' # publishedNames)]_vars
  /\ [](Len(stack) < MaxDepth)

C4_Witness ==
  /\ pc = "Done" /\ ~threw /\ options.recursive
  /\ {<<"A", "B">>, <<"B", "C">>, <<"C", "A">>} \subseteq startLinks
  /\ publishedNames = Names

\* C5: publishing a root whose manifest is private without the private
\* option ends at once: nothing is published, no script runs, nothing is
\* pushed, and the store and every project are left as they were.
C5_PrivateNoOp ==
  /\ [][(/\ pc = "Idle" /\ root' \in Names
         /\ manifest[root'].private /\ ~options'.private)
        => (/\ pc' = "Done" /\ log' = <<>> /\ ~threw'
            /\ publishedNames' = {} /\ stack' = <<>> /\ pushTodo' = <<>>
            /\ UNCHANGED <<manifest, content, store, yalcDir, nodeModules,
                           binLinks, lockfile, installations>>)]_vars
  /\ [][(/\ pc = "Done" /\ manifest[root].private /\ ~options.private)
        => (/\ pc' = "Idle"
            /\ UNCHANGED <<manifest, content, store, yalcDir, nodeModules,
                           binLinks, lockfile, installations>>)]_vars

C5_Witness ==
  /\ pc = "Done" /\ manifest[root].private /\ ~options.private
  /\ options.push /\ options.recursive
  /\ installations[root] # {}
  /\ log = <<>>

\* the number of times the update path was invoked in directory d
PushCount(d) == CountEv(log, {Event("push", root, d, <<>>)})

RootStored ==
  \E k \in 1..Len(log) : log[k] = Event("copy", root, root, <<"stored">>)

\* C14: the update path is invoked only when push or pushSafe is set, only
\* after the publish of the root has ended and nothing of the traversal
\* follows it, only for the root package name and only in directories
\* registered under that name, at most once each; when the loop has ended it
\* has been invoked exactly once in every such directory, and in no other.
C14_PushRootOnly ==
  /\ \A k \in 1..Len(log) :
       log[k].ev = "push" =>
         /\ options.push \/ options.pushSafe
         /\ log[k].name = root
         /\ stack = <<>>
         /\ \E j \in 1..(k - 1) : log[j].ev = "copy" /\ log[j].name = root
         /\ \A j \in (k + 1)..Len(log) : log[j].ev = "push"
  /\ \A d \in Names : PushCount(d) <= 1
  /\ pc = "Push" =>
       \A d \in Names :
         /\ PushCount(d) = 1 => d \in installations[root]
         /\ (pushTodo = <<>> /\ d \in installations[root]) => PushCount(d) = 1
  /\ (addCall.active /\ addCall.by = "push") =>
       /\ Len(addCall.packages) = 1
       /\ parsePackageName(addCall.packages[1]).name = root
       /\ log[Len(log)] = Event("push", root, addCall.workingDir, <<>>)
  /\ ( /\ pc = "Done" /\ ~threw /\ RootStored
       /\ options.push \/ options.pushSafe )
     => \A d \in installations[root] : PushCount(d) = 1

C14_Witness ==
  /\ pc = "Push" /\ pushTodo = <<>> /\ root = "A"
  /\ options.recursive
  /\ \E k \in 1..Len(log) : log[k].ev = "copy" /\ log[k].name = "B"
  /\ installations["A"] = {"B"}
  /\ "C" \in installations["B"]
  /\ PushCount("B") = 1 /\ PushCount("C") = 0

\* the packages the traversal reaches from the packages of S along the
\* qualifying links
RECURSIVE ReachedFrom(_)
ReachedFrom(S) ==
  LET T == S \cup {e[2] : e \in {x \in startLinks : x[1] \in S}}
  IN IF T = S THEN S ELSE ReachedFrom(T)

\* the package whose script threw
FailedItem == log[Len(log)].name

Copied(n) == \E k \in 1..Len(log) : log[k].ev = "copy" /\ log[k].name = n

\* C15: when the publish of a linked dependency fails in a recursive publish,
\* the other qualifying dependencies reached from the root that do not
\* themselves depend on the failed one are still published in the same
\* invocation.
C15_BestEffort ==
  ( /\ pc = "Done" /\ threw /\ options.recursive
    /\ FailedItem # root )
  => \A n \in ReachedFrom({root}) \ {root, FailedItem} :
       FailedItem \notin ReachedFrom({n}) => Copied(n)

\* the direct qualifying dependencies of the root, in the order of the scan
RootDeps == FilterSeq(NameOrder, {n \in Names : <<root, n>> \in startLinks})

\* C16: in recursive mode, when the root is copied into the store, every
\* package reached from it along qualifying links has been through its own
\* publish, and addPackages has been run in the root project with the
\* root's direct qualifying dependencies, after the last of those publishes;
\* in non-recursive mode only the root is published and addPackages is not
\* run.
C16_RootLast ==
  /\ options.recursive =>
       \A k \in 1..Len(log) :
         (log[k].ev = "copy" /\ log[k].name = root) =>
           /\ \A n \in ReachedFrom({root}) \ {root} :
                \E j \in 1..(k - 1) : log[j].ev = "copy" /\ log[j].name = n
           /\ manifest[root].dependencies.present =>
                \E j \in 1..(k - 1) :
                  /\ log[j] = Event("add", root, root, RootDeps)
                  /\ \A i \in (j + 1)..(k - 1) : log[i].name = root
  /\ ~options.recursive =>
       \A k \in 1..Len(log) : log[k].name = root /\ log[k].ev # "add"

C16_Witness ==
  /\ pc = "Done" /\ ~threw /\ options.recursive /\ root = "A"
  /\ startLinks = {<<"A", "B">>, <<"A", "C">>, <<"B", "C">>}
  /\ \E j \in 1..Len(log) : log[j] = Event("add", "A", "A", <<"B", "C">>)
  /\ log[Len(log)].name = "A"
  /\ Copied("A") /\ Copied("B") /\ Copied("C")

\* C17: every name handed to addPackages by the traversal belongs to a
\* package whose own publish has been through its store copy earlier in the
\* same invocation.
C17_AddedAfterPublished ==
  \A k \in 1..Len(log) :
    log[k].ev = "add" =>
      \A n \in SeqToSet(log[k].arg) :
        \E j \in 1..(k - 1) : log[j].ev = "copy" /\ log[j].name = n

\* C18: a step of the loop over the dependencies of a package recurses into
\* the dependency exactly when its node_modules entry is a symlink that does
\* not point into the staging folder of that same package's project and the
\* linked package is not private; a symlink into the staging folder of
\* another project qualifies.
C18_QualifiesIff ==
  [][(/\ pc = "Traverse" /\ Top.phase = "scan" /\ Top.todo # <<>>
      /\ stack' # stack)
     => LET name == Head(Top.todo)
            entry == nodeModules[Top.name][name]
        IN (Len(stack') > Len(stack))
             <=> /\ entry \in {"link_other_yalc", "link_project"}
                 /\ ~manifest[name].private]_vars

\* the script of each family that has priority among the scripts present
ExpectedPre(present) ==
  IF "preyalc" \in present THEN "preyalc"
  ELSE IF "prepare" \in present THEN "prepare"
  ELSE IF "prepublishOnly" \in present THEN "prepublishOnly"
  ELSE "prepublish"

ExpectedPost(present) ==
  IF "postyalc" \in present THEN "postyalc" ELSE "postpublish"

IsPre(e) == e.ev = "script" /\ e.arg[1] \in SeqToSet(PreScriptNames)
IsPost(e) == e.ev = "script" /\ e.arg[1] \in SeqToSet(PostScriptNames)

\* the order of the events of the scripts in the log of the invocation
ScriptsInOrder ==
  /\ \A k \in 1..Len(log) :
       /\ log[k].ev = "script" => ~options.force
       /\ IsPre(log[k]) =>
            /\ log[k].arg[1] = ExpectedPre(manifest[log[k].name].scripts.names)
            /\ k > 1 /\ log[k - 1] = Event("publish", log[k].name, log[k].name, <<>>)
            /\ \A j \in 1..Len(log) :
                 (j # k /\ log[j].name = log[k].name) => ~IsPre(log[j])
            /\ \A j \in 1..(k - 1) :
                 ~(log[j].ev = "copy" /\ log[j].name = log[k].name)
       /\ IsPost(log[k]) =>
            /\ log[k].arg[1] = ExpectedPost(manifest[log[k].name].scripts.names)
            /\ k > 1 /\ log[k - 1] = Event("copy", log[k].name, log[k].name, <<"stored">>)
            /\ \A j \in 1..Len(log) :
                 (j # k /\ log[j].name = log[k].name) => ~IsPost(log[j])
  /\ (threw /\ IsPre(log[Len(log)])) => ~Copied(FailedItem)

WroteLocator(n) ==
  \E field \in {"dependencies", "devDependencies"} :
    /\ manifest[addCall.workingDir][field].map[n]
         # addCall.before.manifest[field].map[n]
    /\ manifest[addCall.workingDir][field].map[n]
         \in {"file:.yalc/" \o n, "link:.yalc/" \o n}

\* C20: whenever an addPackages call wrote a new locator for a package into
\* the consumer manifest, the same call produced an install result for it,
\* replaced node_modules/<name>, and left a lockfile entry whose file or link
\* flag matches the locator; the manifest is not changed for a package the
\* call skips.
C20_ManifestMatchesLockfile ==
  addCall.active =>
    \A n \in Names :
      WroteLocator(n) =>
        /\ n \in Installed
        /\ n \in SeqToSet(addCall.replacedDirs)
        /\ \E field \in {"dependencies", "devDependencies"} :
             LET locator == manifest[addCall.workingDir][field].map[n]
                 entry == lockfile[addCall.workingDir][n]
             IN /\ entry.present
                /\ entry.file <=> locator = "file:.yalc/" \o n
                /\ entry.link <=> locator = "link:.yalc/" \o n

====
